---- MODULE Spec2Model ----
(***************************************************************************)
(* Model of the key_registry Anchor program                                *)
(* (phase6_solana/solana_registry/src/lib.rs).                             *)
(*                                                                         *)
(* State: the ledger accounts the program can be handed (the candidate     *)
(* program-derived key_record slots and a funded wallet), the host's       *)
(* off-curve predicate, and history variables: the last transaction with   *)
(* its result, the store before it, and per slot who registered and last   *)
(* wrote it.  One action per instruction; an action is the whole           *)
(* transaction: the account validation generated from the                  *)
(* #[derive(Accounts)] struct followed by the handler body.                *)
(*                                                                         *)
(* Error kinds of the spec and where the program gets them from:           *)
(*   "AlreadyRegistered"  system program AccountAlreadyInUse raised by the *)
(*                        `init` constraint on an existing account         *)
(*   "NotFound"           Anchor AccountNotInitialized raised when loading *)
(*                        Account<KeyRecord> from an empty account         *)
(*   "Unauthorized"       KeyRegistryError::Unauthorized                   *)
(*   "AddressExhausted"   find_program_address finds no bump               *)
(* Other host error kinds keep their Anchor names: "AccountNotSigner",     *)
(* "ConstraintSeeds", "AccountOwnedByWrongProgram".                        *)
(***************************************************************************)
EXTENDS Integers, FiniteSets, Sequences, TLC

\* ---- bounds ----
NumOwners == 2
NumKeys == 2
NumBumps == 2

\* ---- program / host constants ----
MaxBump == 255
NoBump == -1

\* The last candidate byte the host search tries: it starts at 255 and makes
\* 255 attempts, so byte 0 is never tried.
LastBump == 1

Owners == 1..NumOwners
Keys == 1..NumKeys
MinBump == MaxBump - NumBumps + 1
Bumps == MinBump..MaxBump

\* Variant of Pda for seeds [b"key_record"] without the owner key.
Pda_NoOwner(o, b) == (MaxBump + 1) + b

\* Hash of the seeds [b"key_record", owner, bump] under the program id:
\* an injective map into the address space, disjoint from wallet addresses.
Pda(o, b) == o * (MaxBump + 1) + b

PdaAddrs == {Pda(o, b) : o \in Owners, b \in Bumps}

\* A funded system-owned account (the wallet of owner 1) that a client may
\* pass where the program expects a key_record.
FundedAddr == 1

Addrs == PdaAddrs \cup {FundedAddr}

\* Owners whose candidate address for byte 0 is off the curve.
ZeroBumpOwners == {1}

\* Host off-curve predicates explored: for every owner the valid bumps among
\* the candidates MinBump..255 are none, only the lowest candidate, or every
\* candidate; byte 0 is valid for the owners in ZeroBumpOwners; the bytes
\* between are not valid.
HostPredicates ==
    {UNION {{Pda(o, b) : b \in MinBump..c[o]} : o \in Owners}
        \cup {Pda(o, 0) : o \in ZeroBumpOwners} :
        c \in [Owners -> {MinBump - 1, MinBump, MaxBump}]}

\* ---- account contents ----
Absent == [tag |-> "empty", owner |-> 0, public_key |-> 0, bump |-> 0]
Wallet == [tag |-> "wallet", owner |-> 0, public_key |-> 0, bump |-> 0]
KeyRecord(o, k, b) == [tag |-> "KeyRecord", owner |-> o, public_key |-> k, bump |-> b]

NoTx == [status |-> "none", op |-> "none", caller |-> 0, owner |-> 0, signed |-> FALSE,
         target |-> 0, key |-> 0, result |-> "none", phase5_result |-> "none"]
NoLog == [regOwner |-> 0, regBump |-> 0, regBy |-> 0, lastKey |-> 0, lastBy |-> 0]

VARIABLES offCurve, accounts, prev, tx, log, phase5_accounts

vars == <<offCurve, accounts, prev, tx, log, phase5_accounts>>

\* The account at address a of a store holds a KeyRecord.
Active(store, a) == store[a].tag = "KeyRecord"

\* ---- address derivation (host primitive used by seeds/bump constraints) ----
RECURSIVE try_find_program_address(_, _)
try_find_program_address(o, b) ==
    IF b < LastBump \/ b < MinBump THEN NoBump
    ELSE IF Pda(o, b) \in offCurve THEN b
    ELSE try_find_program_address(o, b - 1)

\* Variant of find_program_address that takes the smallest valid bump.
find_program_address_Smallest(o) ==
    IF \A b \in Bumps : Pda(o, b) \notin offCurve THEN NoBump
    ELSE CHOOSE b \in Bumps :
            /\ Pda(o, b) \in offCurve
            /\ \A b2 \in Bumps : Pda(o, b2) \in offCurve => b <= b2

find_program_address(o) == try_find_program_address(o, MaxBump)

\* create_program_address: the address for an explicit bump, or 0 when the
\* hashed candidate lies on the curve (an error in the host).
create_program_address(o, b) == IF Pda(o, b) \in offCurve THEN Pda(o, b) ELSE 0

\* The slot a client derives for owner o (0 when derivation is exhausted).
Slot(o) ==
    IF find_program_address(o) = NoBump THEN 0 ELSE Pda(o, find_program_address(o))

\* ---- account validation ----

\* Variant of AccountTryFrom without the initialisation check (the account
\* taken as an unchecked account).
AccountTryFrom_NoInitCheck(rec) ==
    IF rec.tag = "wallet" THEN "AccountOwnedByWrongProgram" ELSE "ok"

\* Account<'info, KeyRecord>: loading an existing account of this program.
AccountTryFrom(rec) ==
    IF rec.tag = "empty" THEN "NotFound"
    ELSE IF rec.tag # "KeyRecord" THEN "AccountOwnedByWrongProgram"
    ELSE "ok"

\* Variant of RegisterKeyAccounts with `init_if_needed`: an existing account
\* at the slot is accepted.
RegisterKeyAccounts_InitIfNeeded(store, sg, o, a) ==
    IF ~sg THEN "AccountNotSigner"
    ELSE IF find_program_address(o) = NoBump THEN "AddressExhausted"
    ELSE IF a # Pda(o, find_program_address(o)) THEN "ConstraintSeeds"
    ELSE "ok"

\* Variant of RegisterKeyAccounts whose `owner` is not a Signer.
RegisterKeyAccounts_NoSigner(store, sg, o, a) ==
    IF find_program_address(o) = NoBump THEN "AddressExhausted"
    ELSE IF a # Pda(o, find_program_address(o)) THEN "ConstraintSeeds"
    ELSE IF store[a].tag # "empty" THEN "AlreadyRegistered"
    ELSE "ok"

\* Variant of RegisterKeyAccounts whose key_record has no seeds: any empty
\* account the client names is initialised.
RegisterKeyAccounts_NoSeeds(store, sg, o, a) ==
    IF ~sg THEN "AccountNotSigner"
    ELSE IF find_program_address(o) = NoBump THEN "AddressExhausted"
    ELSE IF store[a].tag # "empty" THEN "AlreadyRegistered"
    ELSE "ok"

\* RegisterKey: owner is a Signer; key_record is `init` at the address found
\* for seeds [b"key_record", owner] with the canonical bump.
RegisterKeyAccounts(store, sg, o, a) ==
    IF ~sg THEN "AccountNotSigner"
    ELSE IF find_program_address(o) = NoBump THEN "AddressExhausted"
    ELSE IF a # Pda(o, find_program_address(o)) THEN "ConstraintSeeds"
    ELSE IF store[a].tag # "empty" THEN "AlreadyRegistered"
    ELSE "ok"

\* Variant of UpdateKeyAccounts whose `owner` is not a Signer.
UpdateKeyAccounts_NoSigner(store, sg, o, a) ==
    IF AccountTryFrom(store[a]) # "ok" THEN AccountTryFrom(store[a])
    ELSE IF create_program_address(o, store[a].bump) # a THEN "ConstraintSeeds"
    ELSE IF store[a].owner # o THEN "Unauthorized"
    ELSE "ok"

\* Variant of UpdateKeyAccounts that accepts an empty account at the slot.
UpdateKeyAccounts_AcceptEmpty(store, sg, o, a) ==
    IF ~sg THEN "AccountNotSigner"
    ELSE IF store[a].tag = "empty" THEN "ok"
    ELSE IF AccountTryFrom(store[a]) # "ok" THEN AccountTryFrom(store[a])
    ELSE IF create_program_address(o, store[a].bump) # a THEN "ConstraintSeeds"
    ELSE IF store[a].owner # o THEN "Unauthorized"
    ELSE "ok"

\* Variant of UpdateKeyAccounts without the seeds/bump constraint.
UpdateKeyAccounts_NoSeeds(store, sg, o, a) ==
    IF ~sg THEN "AccountNotSigner"
    ELSE IF AccountTryFrom(store[a]) # "ok" THEN AccountTryFrom(store[a])
    ELSE IF store[a].owner # o THEN "Unauthorized"
    ELSE "ok"

\* Variant of UpdateKeyAccounts whose key_record carries no seeds and no
\* has_one constraint.
UpdateKeyAccounts_Unconstrained(store, sg, o, a) ==
    IF ~sg THEN "AccountNotSigner"
    ELSE IF AccountTryFrom(store[a]) # "ok" THEN AccountTryFrom(store[a])
    ELSE "ok"

\* UpdateKey: owner is a Signer; key_record is loaded, then checked in the
\* order seeds/bump, has_one.
UpdateKeyAccounts(store, sg, o, a) ==
    IF ~sg THEN "AccountNotSigner"
    ELSE IF AccountTryFrom(store[a]) # "ok" THEN AccountTryFrom(store[a])
    ELSE IF create_program_address(o, store[a].bump) # a THEN "ConstraintSeeds"
    ELSE IF store[a].owner # o THEN "Unauthorized"
    ELSE "ok"

\* VerifyKey: key_record is loaded and its address re-derived from the stored
\* owner and bump.
VerifyKeyAccounts(store, a) ==
    IF AccountTryFrom(store[a]) # "ok" THEN AccountTryFrom(store[a])
    ELSE IF create_program_address(store[a].owner, store[a].bump) # a THEN "ConstraintSeeds"
    ELSE "ok"

\* ---- handler bodies ----
register_key(o, k, b) == KeyRecord(o, k, b)

\* Variant of update_key that also rewrites the bump with the default 255.
update_key_RewriteBump(rec, o, k) ==
    IF rec.owner # o THEN [res |-> "Unauthorized", rec |-> rec]
    ELSE [res |-> "ok", rec |-> [rec EXCEPT !.public_key = k, !.bump = MaxBump]]

\* Variant of update_key that ignores the new key.
update_key_NoWrite(rec, o, k) ==
    IF rec.owner # o THEN [res |-> "Unauthorized", rec |-> rec]
    ELSE [res |-> "ok", rec |-> rec]

\* Variant of update_key after which the account is closed.
update_key_Close(rec, o, k) ==
    IF rec.owner # o THEN [res |-> "Unauthorized", rec |-> rec]
    ELSE [res |-> "ok", rec |-> Absent]

\* Variant of update_key that rejects a key equal to the stored one.
update_key_RejectSame(rec, o, k) ==
    IF rec.owner # o THEN [res |-> "Unauthorized", rec |-> rec]
    ELSE IF rec.public_key = k THEN [res |-> "KeyUnchanged", rec |-> rec]
    ELSE [res |-> "ok", rec |-> [rec EXCEPT !.public_key = k]]

update_key(rec, o, k) ==
    IF rec.owner # o THEN [res |-> "Unauthorized", rec |-> rec]
    ELSE [res |-> "ok", rec |-> [rec EXCEPT !.public_key = k]]

\* Variant of verify_key that returns Ok(true) without comparing.
verify_key_AlwaysTrue(rec, k) == "true"

verify_key(rec, k) == IF rec.public_key = k THEN "true" ELSE "false"

\* ---- instructions as functions of the store ----
\* The result of a whole instruction and the store it leaves: account
\* validation, then the handler body; the account is written back only when
\* the instruction returns Ok.

\* Variant of RegisterKeyStep that writes the record before the check for
\* an existing account fails.
RegisterKeyStep_WriteBeforeCheck(store, o, sg, a, k) ==
    LET r == RegisterKeyAccounts(store, sg, o, a) IN
    [result |-> r,
     accounts |-> IF r \in {"ok", "AlreadyRegistered"}
                  THEN [store EXCEPT ![a] = register_key(o, k, find_program_address(o))]
                  ELSE store]

RegisterKeyStep(store, o, sg, a, k) ==
    LET r == RegisterKeyAccounts(store, sg, o, a) IN
    [result |-> r,
     accounts |-> IF r = "ok"
                  THEN [store EXCEPT ![a] = register_key(o, k, find_program_address(o))]
                  ELSE store]

UpdateKeyStep(store, o, sg, a, k) ==
    LET v == UpdateKeyAccounts(store, sg, o, a)
        u == update_key(store[a], o, k)
        r == IF v = "ok" THEN u.res ELSE v
    IN
    [result |-> r,
     accounts |-> IF r = "ok" THEN [store EXCEPT ![a] = u.rec] ELSE store]

\* Variant of VerifyKeyStep whose key_record is `mut` and that stores the
\* candidate it compared.
VerifyKeyStep_StoresCandidate(store, a, k) ==
    LET v == VerifyKeyAccounts(store, a)
        r == IF v = "ok" THEN verify_key(store[a], k) ELSE v
    IN
    [result |-> r,
     accounts |-> IF v = "ok" THEN [store EXCEPT ![a].public_key = k] ELSE store]

VerifyKeyStep(store, a, k) ==
    LET v == VerifyKeyAccounts(store, a)
        r == IF v = "ok" THEN verify_key(store[a], k) ELSE v
    IN
    [result |-> r, accounts |-> store]

\* ---- the phase5 copy of the program ----
\* (phases/phase5_solana/solana_registry/src/lib.rs), run side by side with
\* the phase6 program on the same transactions and the same host.
phase5_RegisterKeyAccounts(store, sg, o, a) ==
    IF ~sg THEN "AccountNotSigner"
    ELSE IF find_program_address(o) = NoBump THEN "AddressExhausted"
    ELSE IF a # Pda(o, find_program_address(o)) THEN "ConstraintSeeds"
    ELSE IF store[a].tag # "empty" THEN "AlreadyRegistered"
    ELSE "ok"

phase5_UpdateKeyAccounts(store, sg, o, a) ==
    IF ~sg THEN "AccountNotSigner"
    ELSE IF AccountTryFrom(store[a]) # "ok" THEN AccountTryFrom(store[a])
    ELSE IF create_program_address(o, store[a].bump) # a THEN "ConstraintSeeds"
    ELSE IF store[a].owner # o THEN "Unauthorized"
    ELSE "ok"

phase5_VerifyKeyAccounts(store, a) ==
    IF AccountTryFrom(store[a]) # "ok" THEN AccountTryFrom(store[a])
    ELSE IF create_program_address(store[a].owner, store[a].bump) # a THEN "ConstraintSeeds"
    ELSE "ok"

phase5_register_key(o, k, b) == KeyRecord(o, k, b)

phase5_update_key(rec, o, k) ==
    IF rec.owner # o THEN [res |-> "Unauthorized", rec |-> rec]
    ELSE [res |-> "ok", rec |-> [rec EXCEPT !.public_key = k]]

\* Variant of phase5_verify_key with the comparison inverted.
phase5_verify_key_Inverted(rec, k) == IF rec.public_key # k THEN "true" ELSE "false"

phase5_verify_key(rec, k) == IF rec.public_key = k THEN "true" ELSE "false"

phase5_RegisterKeyStep(store, o, sg, a, k) ==
    LET r == phase5_RegisterKeyAccounts(store, sg, o, a) IN
    [result |-> r,
     accounts |-> IF r = "ok"
                  THEN [store EXCEPT ![a] = phase5_register_key(o, k, find_program_address(o))]
                  ELSE store]

phase5_UpdateKeyStep(store, o, sg, a, k) ==
    LET v == phase5_UpdateKeyAccounts(store, sg, o, a)
        u == phase5_update_key(store[a], o, k)
        r == IF v = "ok" THEN u.res ELSE v
    IN
    [result |-> r,
     accounts |-> IF r = "ok" THEN [store EXCEPT ![a] = u.rec] ELSE store]

phase5_VerifyKeyStep(store, a, k) ==
    LET v == phase5_VerifyKeyAccounts(store, a)
        r == IF v = "ok" THEN phase5_verify_key(store[a], k) ELSE v
    IN
    [result |-> r, accounts |-> store]

\* ---- transactions ----
\* One action per instruction: the runtime executes the whole transaction
\* atomically (account validation, then the handler body) on inputs chosen by
\* the client: the key passed as `owner`, whether that account signed, the
\* address passed as key_record and the 32-byte argument.  verify_key has no
\* signer; `c` is the party that invokes it.  Confirm returns the result to
\* the client; transactions execute one at a time.
Init ==
    /\ offCurve \in HostPredicates
    /\ accounts = [a \in Addrs |-> IF a = FundedAddr THEN Wallet ELSE Absent]
    /\ prev = accounts
    /\ tx = NoTx
    /\ log = [a \in Addrs |-> NoLog]
    /\ phase5_accounts = accounts

RegisterKeyTx(o, sg, a, k) ==
    /\ tx.status = "none"
    /\ LET st == RegisterKeyStep(accounts, o, sg, a, k)
           p5 == phase5_RegisterKeyStep(phase5_accounts, o, sg, a, k)
           r == st.result
           b == find_program_address(o)
       IN
       /\ accounts' = st.accounts
       /\ phase5_accounts' = p5.accounts
       /\ log' = IF r = "ok"
                 THEN [log EXCEPT ![a] =
                          [regOwner |-> o, regBump |-> b, regBy |-> IF sg THEN o ELSE 0,
                           lastKey |-> k, lastBy |-> IF sg THEN o ELSE 0]]
                 ELSE log
       /\ tx' = [status |-> "done", op |-> "register", caller |-> 0, owner |-> o,
                 signed |-> sg, target |-> a, key |-> k, result |-> r,
                 phase5_result |-> p5.result]
    /\ prev' = accounts
    /\ UNCHANGED offCurve

UpdateKeyTx(o, sg, a, k) ==
    /\ tx.status = "none"
    /\ LET st == UpdateKeyStep(accounts, o, sg, a, k)
           p5 == phase5_UpdateKeyStep(phase5_accounts, o, sg, a, k)
           r == st.result
       IN
       /\ accounts' = st.accounts
       /\ phase5_accounts' = p5.accounts
       /\ log' = IF r = "ok"
                 THEN [log EXCEPT ![a].lastKey = k, ![a].lastBy = IF sg THEN o ELSE 0]
                 ELSE log
       /\ tx' = [status |-> "done", op |-> "update", caller |-> 0, owner |-> o,
                 signed |-> sg, target |-> a, key |-> k, result |-> r,
                 phase5_result |-> p5.result]
    /\ prev' = accounts
    /\ UNCHANGED offCurve

\* Variant of VerifyKeyTx that answers only the record's owner.
VerifyKeyTx_OwnerOnly(c, a, k) ==
    /\ tx.status = "none"
    /\ LET st == VerifyKeyStep(accounts, a, k)
           p5 == phase5_VerifyKeyStep(phase5_accounts, a, k)
       IN
       /\ accounts' = st.accounts
       /\ phase5_accounts' = p5.accounts
       /\ tx' = [status |-> "done", op |-> "verify", caller |-> c, owner |-> 0,
                 signed |-> FALSE, target |-> a, key |-> k,
                 result |-> IF Active(accounts, a) /\ accounts[a].owner # c
                            THEN "Unauthorized" ELSE st.result,
                 phase5_result |-> p5.result]
    /\ prev' = accounts
    /\ UNCHANGED <<offCurve, log>>

VerifyKeyTx(c, a, k) ==
    /\ tx.status = "none"
    /\ LET st == VerifyKeyStep(accounts, a, k)
           p5 == phase5_VerifyKeyStep(phase5_accounts, a, k)
       IN
       /\ accounts' = st.accounts
       /\ phase5_accounts' = p5.accounts
       /\ tx' = [status |-> "done", op |-> "verify", caller |-> c, owner |-> 0,
                 signed |-> FALSE, target |-> a, key |-> k, result |-> st.result,
                 phase5_result |-> p5.result]
    /\ prev' = accounts
    /\ UNCHANGED <<offCurve, log>>

Confirm ==
    /\ tx.status = "done"
    /\ tx' = NoTx
    /\ prev' = accounts
    /\ UNCHANGED <<offCurve, accounts, log, phase5_accounts>>

Next ==
    \/ \E o \in Owners, sg \in BOOLEAN, a \in Addrs, k \in Keys : RegisterKeyTx(o, sg, a, k)
    \/ \E o \in Owners, sg \in BOOLEAN, a \in Addrs, k \in Keys : UpdateKeyTx(o, sg, a, k)
    \/ \E c \in Owners, a \in Addrs, k \in Keys : VerifyKeyTx(c, a, k)
    \/ Confirm

Spec == Init /\ [][Next]_vars

\* ---- properties ----
Done == tx.status = "done"
Signed == tx.signed

\* C1: after register(A, K), an update signed by B # A that targets A's
\* record fails with Unauthorized (and no other error kind), and the stored
\* credential of A remains K.
C1_UnauthorizedUpdate ==
    (Done /\ tx.op = "update" /\ Signed /\ Active(prev, tx.target)
          /\ prev[tx.target].owner # tx.owner)
    => (tx.result = "Unauthorized"
        /\ accounts[tx.target].public_key = prev[tx.target].public_key)

\* C2: a register for an owner that already has a record fails; when it is
\* signed by the owner and names the owner's slot it fails with
\* AlreadyRegistered; the store (credential, owner, adjustment) is unchanged.
C2_DoubleRegisterRejected ==
    (Done /\ tx.op = "register" /\ Slot(tx.owner) # 0 /\ Active(prev, Slot(tx.owner)))
    => /\ tx.result # "ok"
       /\ accounts = prev
       /\ (Signed /\ tx.target = Slot(tx.owner)) => tx.result = "AlreadyRegistered"

C2_Witness ==
    /\ Done /\ tx.op = "register" /\ tx.result = "AlreadyRegistered"
    /\ accounts[tx.target].public_key # tx.key

\* C3: verify on an Active record returns true if and only if the candidate
\* equals the stored credential, and false otherwise.
C3_VerifyIffEqual ==
    (Done /\ tx.op = "verify" /\ Active(prev, tx.target))
    => /\ tx.result \in {"true", "false"}
       /\ tx.result = "true" <=> tx.key = prev[tx.target].public_key

C3_Witness ==
    Done /\ tx.op = "verify" /\ tx.result = "true" /\ Active(accounts, tx.target)

C5_OwnerBumpWriteOnce ==
    /\ \A a \in Addrs : Active(accounts, a)
          => /\ accounts[a].owner = log[a].regOwner
             /\ accounts[a].bump = log[a].regBump
    /\ \A a \in Addrs : Active(prev, a)
          => /\ accounts[a].owner = prev[a].owner
             /\ accounts[a].bump = prev[a].bump

C5_Witness ==
    /\ Done /\ tx.op = "update" /\ tx.result = "ok"
    /\ accounts[tx.target].bump = MinBump
    /\ accounts[tx.target].owner = log[tx.target].regOwner

\* C6: every successful register creates a record whose owner is the identity
\* that signed the transaction; no record is created for an identity that did
\* not sign.
C6_SelfRegistrationOnly ==
    /\ (Done /\ tx.op = "register" /\ tx.result = "ok")
       => (Signed /\ accounts[tx.target].owner = tx.owner)
    /\ \A a \in Addrs : Active(accounts, a) => accounts[a].owner = log[a].regBy
    /\ \A a \in Addrs : (~Active(prev, a) /\ Active(accounts, a))
          => (Done /\ Signed /\ accounts[a].owner = tx.owner)

C6_Witness ==
    /\ Done /\ tx.op = "register" /\ tx.result = "ok"
    /\ Signed /\ accounts[tx.target].owner = tx.owner

\* C7: the credential of a record was last written by a transaction signed by
\* the record's owner; a transaction not signed by the owner changes no field
\* of it.
C7_OnlyOwnerMutates ==
    /\ \A a \in Addrs : Active(accounts, a) => log[a].lastBy = accounts[a].owner
    /\ \A a \in Addrs : accounts[a] # prev[a]
          => /\ Done /\ Signed
             /\ accounts[a].owner = tx.owner
             /\ Active(prev, a) => prev[a].owner = tx.owner

C7_Witness ==
    /\ Done /\ tx.op = "update" /\ tx.result # "ok"
    /\ Active(prev, tx.target)
    /\ Signed /\ prev[tx.target].owner # tx.owner
    /\ accounts[tx.target] = prev[tx.target]

\* C8: verify on a slot with no record fails with NotFound; it does not
\* return false.
C8_VerifyBeforeRegister ==
    (Done /\ tx.op = "verify" /\ prev[tx.target].tag = "empty")
    => tx.result = "NotFound"

C8_Witness ==
    /\ Done /\ tx.op = "verify" /\ tx.result = "NotFound"
    /\ \E o \in Owners : tx.target = Slot(o)

\* C9: update signed by an owner with no record fails with NotFound and the
\* owner's slot stays empty.
C9_UpdateAbsentNotFound ==
    (Done /\ tx.op = "update" /\ Signed /\ prev[tx.target].tag = "empty")
    => /\ tx.result = "NotFound"
       /\ accounts[tx.target] = Absent
       /\ accounts = prev

C9_Witness ==
    /\ Done /\ tx.op = "update" /\ tx.result = "NotFound"
    /\ Signed /\ tx.target = Slot(tx.owner)
    /\ accounts[tx.target] = Absent

\* C10: a record that exists exists in every later state, and a slot leaves
\* the empty state only by a successful register that targets it.
C10_ActiveTerminal ==
    [][\A a \in Addrs :
          /\ Active(accounts, a) => Active(accounts', a)
          /\ (accounts[a].tag = "empty" /\ accounts'[a].tag # "empty")
             => (tx'.op = "register" /\ tx'.target = a /\ tx'.result = "ok")]_vars

C10_Witness ==
    /\ Done /\ tx.op = "verify" /\ tx.result = "false"
    /\ Active(prev, tx.target) /\ Active(accounts, tx.target)

\* C11: a transaction that fails (any error kind) leaves the whole store as
\* it was before the call; a transaction that succeeds applies its effect.
Failed == Done /\ tx.result \notin {"ok", "true", "false"}

C11_AtomicErrors ==
    /\ Failed => accounts = prev
    /\ (Done /\ tx.op = "register" /\ tx.result = "ok")
       => accounts = [prev EXCEPT ![tx.target] =
                         KeyRecord(tx.owner, tx.key, find_program_address(tx.owner))]
    /\ (Done /\ tx.op = "update" /\ tx.result = "ok")
       => accounts = [prev EXCEPT ![tx.target].public_key = tx.key]

C11_Witness ==
    /\ Failed /\ tx.op = "register" /\ tx.result = "AlreadyRegistered"
    /\ Active(prev, tx.target) /\ accounts = prev

\* C12: verify, whether it returns true, returns false or fails, changes no
\* record of any owner and creates none.
C12_VerifyPureRead ==
    (Done /\ tx.op = "verify")
    => /\ accounts = prev
       /\ \A a \in Addrs : accounts[a].tag = prev[a].tag

C12_Witness ==
    /\ Done /\ tx.op = "verify" /\ tx.result \in {"true", "false"}
    /\ accounts = prev
    /\ \E a \in Addrs : a # tx.target /\ Active(accounts, a)

\* C13: verify needs no signer and its outcome is the same whoever invokes
\* it: from any state, the outcomes verify can produce for a slot and a
\* candidate are the same for every invoking party, and the outcome is
\* decided by the slot's stored record and the candidate alone.
VerifyResults ==
    {"true", "false", "NotFound", "AccountOwnedByWrongProgram", "ConstraintSeeds",
     "Unauthorized", "AccountNotSigner"}

C13_VerifyPublic ==
    /\ tx.status = "none"
       => \A a \in Addrs, k \in Keys, c1 \in Owners, c2 \in Owners, r \in VerifyResults :
             (ENABLED (VerifyKeyTx(c1, a, k) /\ tx'.result = r))
             => (ENABLED (VerifyKeyTx(c2, a, k) /\ tx'.result = r))
    /\ (Done /\ tx.op = "verify")
       => /\ ~tx.signed
          /\ tx.result = (IF prev[tx.target].tag = "empty" THEN "NotFound"
                          ELSE IF prev[tx.target].tag = "wallet" THEN "AccountOwnedByWrongProgram"
                          ELSE IF prev[tx.target].public_key = tx.key THEN "true"
                          ELSE "false")

C13_Witness ==
    /\ Done /\ tx.op = "verify" /\ tx.result = "true"
    /\ Active(prev, tx.target)
    /\ tx.caller # prev[tx.target].owner

\* C14: an update by the owner with the credential already stored succeeds
\* and leaves the record as it was; hence a second application of the same
\* update changes nothing, and verify of that credential is true afterwards.
C14_UpdateIdempotent ==
    /\ (Done /\ tx.op = "update" /\ Signed /\ Active(prev, tx.target)
             /\ prev[tx.target].owner = tx.owner
             /\ prev[tx.target].public_key = tx.key)
       => (tx.result = "ok" /\ accounts = prev)
    /\ \A a \in Addrs, k \in Keys :
          (tx.status = "none" /\ Active(accounts, a))
          => LET once == UpdateKeyStep(accounts, accounts[a].owner, TRUE, a, k)
                 twice == UpdateKeyStep(once.accounts, accounts[a].owner, TRUE, a, k)
             IN /\ once.result = "ok"
                /\ twice.result = "ok"
                /\ twice.accounts = once.accounts
                /\ VerifyKeyStep(twice.accounts, a, k).result = "true"

C14_Witness ==
    /\ Done /\ tx.op = "update" /\ tx.result = "ok"
    /\ prev[tx.target].public_key = tx.key
    /\ accounts = prev

\* C15: every record is stored at the slot derived from its own owner field
\* with its stored bump, which is the slot found for that owner; no two
\* records have the same owner.
C15_OneRecordPerOwner ==
    /\ \A a \in Addrs : Active(accounts, a)
          => /\ a = Pda(accounts[a].owner, accounts[a].bump)
             /\ a = Slot(accounts[a].owner)
    /\ \A a \in Addrs, b \in Addrs :
          (Active(accounts, a) /\ Active(accounts, b) /\ accounts[a].owner = accounts[b].owner)
          => a = b

C15_Witness ==
    /\ tx.status = "none"
    /\ \E a \in Addrs, b \in Addrs :
          /\ Active(accounts, a) /\ Active(accounts, b)
          /\ accounts[a].owner # accounts[b].owner
          /\ a = Slot(accounts[a].owner) /\ b = Slot(accounts[b].owner)

ValidBytes(o) == {b \in Bumps \cup {0} : Pda(o, b) \in offCurve}

C17_Derive_AllBytes ==
    (Done /\ tx.op = "register" /\ Signed)
    => /\ tx.result = "AddressExhausted" <=> ValidBytes(tx.owner) = {}
       /\ tx.result = "ok"
          => /\ accounts[tx.target].bump \in ValidBytes(tx.owner)
             /\ \A b \in ValidBytes(tx.owner) : b <= accounts[tx.target].bump

\* C17 (amended): derivation returns the largest byte in 1..255 whose
\* candidate address is off the curve (the first found searching from 255
\* downward) and fails exactly when no byte in 1..255 is valid; a signed
\* register fails with AddressExhausted exactly in that case; the bump stored
\* by register is the derived one, so update and verify succeed only on the
\* slot register created for that owner.
ValidBumps(o) == {b \in Bumps : b >= LastBump /\ Pda(o, b) \in offCurve}

C17_Derive ==
    /\ tx.status = "none"
       => \A o \in Owners :
             /\ ValidBumps(o) = {} <=> find_program_address(o) = NoBump
             /\ ValidBumps(o) # {}
                => /\ find_program_address(o) \in ValidBumps(o)
                   /\ \A b \in ValidBumps(o) : b <= find_program_address(o)
    /\ (Done /\ tx.op = "register" /\ Signed)
       => (tx.result = "AddressExhausted" <=> ValidBumps(tx.owner) = {})
    /\ tx.status = "none"
       => \A a \in Addrs : Active(accounts, a)
             => /\ accounts[a].bump \in ValidBumps(accounts[a].owner)
                /\ \A b \in ValidBumps(accounts[a].owner) : b <= accounts[a].bump
                /\ a = Pda(accounts[a].owner, accounts[a].bump)
    /\ (Done /\ tx.op \in {"update", "verify"} /\ tx.result \in {"ok", "true", "false"})
       => tx.target = Slot(prev[tx.target].owner)

C17_Witness ==
    /\ Done /\ tx.op = "register" /\ tx.result = "ok"
    /\ accounts[tx.target].bump < MaxBump
    /\ Pda(tx.owner, MaxBump) \notin offCurve

\* C18: a register or update changes at most the record it targets, which
\* belongs to the owner it is made for; and calls made by distinct owners on
\* their own slots commute: both orders give the same store and the same
\* result for each call.
Ops == {"register", "update", "verify"}

\* The address a client of owner o names: the derived slot, or the candidate
\* for bump 255 when derivation is exhausted.
TargetOf(o) == IF Slot(o) = 0 THEN Pda(o, MaxBump) ELSE Slot(o)

\* A call of owner o on its own slot, signed by o, as a function of the store.
ApplyCall(store, op, o, k) ==
    IF op = "register" THEN RegisterKeyStep(store, o, TRUE, TargetOf(o), k)
    ELSE IF op = "update" THEN UpdateKeyStep(store, o, TRUE, TargetOf(o), k)
    ELSE VerifyKeyStep(store, TargetOf(o), k)

C18_IndependentOwners ==
    /\ (Done /\ accounts # prev)
       => /\ accounts = [prev EXCEPT ![tx.target] = accounts[tx.target]]
          /\ accounts[tx.target].owner = tx.owner
    /\ tx.status = "none"
       => \A o1 \in Owners, o2 \in Owners, op1 \in Ops, op2 \in Ops, k1 \in Keys, k2 \in Keys :
             o1 < o2
             => LET s1 == ApplyCall(accounts, op1, o1, k1)
                    s12 == ApplyCall(s1.accounts, op2, o2, k2)
                    s2 == ApplyCall(accounts, op2, o2, k2)
                    s21 == ApplyCall(s2.accounts, op1, o1, k1)
                IN /\ s12.accounts = s21.accounts
                   /\ s1.result = s21.result
                   /\ s2.result = s12.result

C18_Witness ==
    /\ Done /\ tx.op = "update" /\ tx.result = "ok"
    /\ accounts[tx.target] # prev[tx.target]
    /\ \E a \in Addrs : a # tx.target /\ Active(accounts, a) /\ accounts[a] = prev[a]

\* C19: whenever the UpdateKey account constraints pass, the owner check in
\* the body of update_key passes too: the body never returns Unauthorized.
C19_BodyCheckRedundant ==
    tx.status = "none"
    => \A o \in Owners, sg \in BOOLEAN, a \in Addrs, k \in Keys :
          UpdateKeyAccounts(accounts, sg, o, a) = "ok"
          => update_key(accounts[a], o, k).res = "ok"

C19_Witness ==
    /\ Done /\ tx.op = "update" /\ tx.result = "ok" /\ Signed
    /\ prev[tx.target].owner = tx.owner
    /\ tx.target = Slot(tx.owner)

\* C20: run side by side from the empty store on the same transactions, the
\* phase5 and the phase6 program return the same result for every call and
\* hold identical records in every state.
C20_CopiesEquivalent ==
    /\ phase5_accounts = accounts
    /\ Done => tx.phase5_result = tx.result

C20_Witness ==
    /\ Done /\ tx.op = "verify" /\ tx.phase5_result = "false"
    /\ Active(phase5_accounts, tx.target)
    /\ \E a \in Addrs : a # tx.target /\ Active(phase5_accounts, a)
====
